---- MODULE Spec2Model ----
(***************************************************************************)
(* Model of the smoking-counter LINE bot (src/index.js, src/logic.js).     *)
(* State: the persisted counter file data.json, the wall clock (UTC date   *)
(* and the scheduler's slot in the day) and the observable effects of the  *)
(* last handler or scheduled job (reply, log lines, error handling).       *)
(***************************************************************************)
EXTENDS Integers, Sequences, FiniteSets, TLC

VARIABLES
    dataJson,   \* the file ./data.json: <<>> when absent, else <<record>>
    now,        \* [day |-> UTC day number, slot |-> position in the UTC day]
    last,       \* what the last handler / job did (inputs and outputs)
    ledger      \* history: the counts of the scheduler's (Asia/Taipei) day

vars == <<dataJson, now, last, ledger>>

(***************************************************************************)
(* Bounds of the model.                                                    *)
(***************************************************************************)
MaxToday == 2      \* largest count kept in the whole-program specification
MaxCount == 25     \* largest count in the reply specification (SpecCount)
MaxStreak == 3     \* largest streak
MaxDay == 1        \* last UTC day of a behaviour (days 0..MaxDay)
MaxBatch == 3      \* most events in one webhook request
RewardsLen == 2    \* number of entries of rewards.json

(***************************************************************************)
(* JavaScript values held in the numeric fields: a number, NaN or null.    *)
(***************************************************************************)
Num(n) == [t |-> "number", v |-> n]
NaN == [t |-> "NaN", v |-> 0]
Null == [t |-> "null", v |-> 0]

IsNum(x) == x.t = "number"

\* ToNumber: null converts to +0, NaN stays NaN.
ToNumber(x) == IF x.t = "null" THEN Num(0) ELSE x

\* a + b on numbers / null / NaN
JsAdd(a, b) ==
    LET x == ToNumber(a)
        y == ToNumber(b)
    IN  IF IsNum(x) /\ IsNum(y) THEN Num(x.v + y.v) ELSE NaN

\* a - b
JsSub(a, b) ==
    LET x == ToNumber(a)
        y == ToNumber(b)
    IN  IF IsNum(x) /\ IsNum(y) THEN Num(x.v - y.v) ELSE NaN

\* a < b: false as soon as one side is NaN
JsLess(a, b) ==
    LET x == ToNumber(a)
        y == ToNumber(b)
    IN  IsNum(x) /\ IsNum(y) /\ x.v < y.v

\* a <= b and a >= b
JsLeq(a, b) ==
    LET x == ToNumber(a)
        y == ToNumber(b)
    IN  IsNum(x) /\ IsNum(y) /\ x.v <= y.v

\* a === b: no conversion; NaN is equal to nothing
JsStrictEq(a, b) ==
    \/ a.t = "number" /\ b.t = "number" /\ a.v = b.v
    \/ a.t = "null" /\ b.t = "null"

\* JSON.parse(JSON.stringify(x)) of one numeric field: NaN is written as null.
JsonValue(x) == IF x.t = "NaN" THEN Null ELSE x

(***************************************************************************)
(* Text.  A message is a sequence of one-character strings.                *)
(***************************************************************************)
Digits == <<"0", "1", "2", "3", "4", "5", "6", "7", "8", "9">>

IsDigit(c) == \E i \in 1..Len(Digits) : Digits[i] = c

DigitValue(c) == (CHOOSE i \in 1..Len(Digits) : Digits[i] = c) - 1

IsSign(c) == c \in {"+", "-"}

\* String.prototype.startsWith
StartsWith(msg, c) == Len(msg) >= 1 /\ msg[1] = c

\* msg.slice(1)
Slice1(msg) == IF Len(msg) >= 1 THEN SubSeq(msg, 2, Len(msg)) ELSE msg

\* the longest prefix of s made of digits
RECURSIVE DigitPrefix(_)
DigitPrefix(s) ==
    IF Len(s) >= 1 /\ IsDigit(s[1])
    THEN <<s[1]>> \o DigitPrefix(Tail(s))
    ELSE <<>>

\* the value of a digit string, most significant digit first
RECURSIVE DecimalValue(_)
DecimalValue(s) ==
    IF s = <<>> THEN 0
    ELSE 10 * DecimalValue(SubSeq(s, 1, Len(s) - 1)) + DigitValue(s[Len(s)])

\* parseInt(s) without radix on sign-and-digit text: one optional sign, then
\* the longest run of digits; NaN when no digit follows.
parseInt(s) ==
    LET neg == StartsWith(s, "-")
        body == IF Len(s) >= 1 /\ IsSign(s[1]) THEN Tail(s) ELSE s
        ds == DigitPrefix(body)
    IN  IF ds = <<>> THEN NaN
        ELSE Num(IF neg THEN 0 - DecimalValue(ds) ELSE DecimalValue(ds))

\* /^[+/\-][+\-]?\d+$/.test(msg)
IsNumericAdjust(msg) ==
    /\ Len(msg) >= 2
    /\ msg[1] \in {"+", "/", "-"}
    /\ LET rest == IF IsSign(msg[2]) THEN SubSeq(msg, 3, Len(msg)) ELSE Tail(msg)
       IN  rest # <<>> /\ \A i \in 1..Len(rest) : IsDigit(rest[i])

\* String.prototype.toLowerCase on the letters the messages use
UpperCase == <<"W", "E", "A", "T", "H", "R", "M", "O", "N", "I", "G", "V", "P", "D">>
LowerCase == <<"w", "e", "a", "t", "h", "r", "m", "o", "n", "i", "g", "v", "p", "d">>

ToLowerChar(c) ==
    IF \E i \in 1..Len(UpperCase) : UpperCase[i] = c
    THEN LowerCase[CHOOSE i \in 1..Len(UpperCase) : UpperCase[i] = c]
    ELSE c

toLowerCase(msg) == [i \in 1..Len(msg) |-> ToLowerChar(msg[i])]

\* The slash commands handleCommand compares with.  A CJK character is written
\* as one token, its pinyin: /查詢 /查詢今日 /查詢昨日 /重設 /說明 /天氣 /weather.
CmdQuery == <<"/", "cha", "xun">>
CmdQueryToday == <<"/", "cha", "xun", "jin", "ri">>
CmdQueryYesterday == <<"/", "cha", "xun", "zuo", "ri">>
CmdReset == <<"/", "chong", "she">>
CmdHelp == <<"/", "shuo", "ming">>
CmdWeatherZh == <<"/", "tian", "qi">>
CmdWeatherEn == <<"/", "w", "e", "a", "t", "h", "e", "r">>

(***************************************************************************)
(* The persisted counter record and its file.                              *)
(***************************************************************************)
Record(date, today, yesterday, streak) ==
    [date |-> date, today |-> today, yesterday |-> yesterday, streak |-> streak]

\* (mutation: the existence check is missing)
ensureDataFileAlways(disk, cur) == <<Record(cur, Num(0), Num(0), 0)>>

\* ensureDataFile: create the file with the default record when it is absent.
ensureDataFile(disk, cur) ==
    IF disk = <<>> THEN <<Record(cur, Num(0), Num(0), 0)>> ELSE disk

\* loadData: the record parsed from the file (after ensureDataFile).
loadData(disk, cur) == Head(ensureDataFile(disk, cur))

\* saveData: the file after writing JSON.stringify(data).
saveData(data) ==
    <<Record(data.date, JsonValue(data.today), JsonValue(data.yesterday), data.streak)>>

\* loadData throws: writeFileSync of the default record, or readFileSync.
LoadThrows(disk, io) == (io = "ensureFails" /\ disk = <<>>) \/ io = "readFails"

\* the file once loadData has returned or thrown
DiskAfterLoad(disk, cur, io) ==
    IF io = "ensureFails" THEN disk ELSE ensureDataFile(disk, cur)

\* (mutation: the rollover forgets to store the new date)
autoResetKeepsDate(data, cur) ==
    IF data.date # cur
    THEN [data EXCEPT !.yesterday = data.today, !.today = Num(0)]
    ELSE data

\* autoResetIfNewDay: roll today into yesterday when the stored date is not
\* the current date.
autoResetIfNewDay(data, cur) ==
    IF data.date # cur
    THEN [data EXCEPT !.yesterday = data.today, !.today = Num(0), !.date = cur]
    ELSE data

(***************************************************************************)
(* Replies.  A reply is [kind, tag, idx, n, d]; kind names the template,   *)
(* the other fields are the values interpolated into it.                   *)
(***************************************************************************)
Reply(kind, tag, idx, n, d) ==
    [kind |-> kind, tag |-> tag, idx |-> idx, n |-> n, d |-> d]

NoReply == Reply("none", "", 0, Null, Null)

\* countReactions: 20 pre-baked texts, entry i is the text for count i + 1.
CatalogLen == 20
countReactions == [i \in 0..(CatalogLen - 1) |-> Reply("countReactions", "", i, Num(i + 1), Null)]

\* (mutation: the clamp at zero is missing)
applyAmountNoClamp(data, amount) == [data EXCEPT !.today = JsAdd(data.today, amount)]

\* data.today += amount; if (data.today < 0) data.today = 0;
applyAmount(data, amount) ==
    LET sum == JsAdd(data.today, amount)
    IN  [data EXCEPT !.today = IF JsLess(sum, Num(0)) THEN Num(0) ELSE sum]

\* (mutation: the equal case is reported as fewer)
comparisonReplyLeq(data) ==
    LET n == data.today
    IN  IF JsLeq(n, data.yesterday)
        THEN Reply("comparison", "fewer", 0, n, JsSub(data.yesterday, n))
        ELSE Reply("comparison", "exceeded", 0, n, n)

\* the comparison message for counts outside 0..20
comparisonReply(data) ==
    LET n == data.today
    IN  IF JsLess(n, data.yesterday)
        THEN Reply("comparison", "fewer", 0, n, JsSub(data.yesterday, n))
        ELSE IF JsStrictEq(n, data.yesterday)
        THEN Reply("comparison", "same", 0, n, Null)
        ELSE Reply("comparison", "exceeded", 0, n, n)

\* (mutation: the catalog range starts at 2)
countReplyFromTwo(data) ==
    LET n == data.today
    IN  IF JsLeq(Num(2), n) /\ JsLeq(n, Num(CatalogLen))
        THEN countReactions[n.v - 1]
        ELSE IF JsStrictEq(n, Num(0))
        THEN Reply("zero", "", 0, Null, Null)
        ELSE comparisonReply(data)

\* the reply handleAdjust builds from the adjusted record
countReply(data) ==
    LET n == data.today
    IN  IF JsLeq(Num(1), n) /\ JsLeq(n, Num(CatalogLen))
        THEN countReactions[n.v - 1]
        ELSE IF JsStrictEq(n, Num(0))
        THEN Reply("zero", "", 0, Null, Null)
        ELSE comparisonReply(data)

\* What one handler or job did: the file afterwards, the data object after
\* the rollover check (<<>> when loadData threw), the reply (or push), the
\* reward pushed (0: none), the error raised, whether it left the handler
\* (thrown), whether saveData ran, whether the rollover fired, and the
\* console lines.
Result(disk, mem, reply, reward, err, thrown, saved, rolled, log) ==
    [disk |-> disk, mem |-> mem, reply |-> reply, reward |-> reward, err |-> err,
     thrown |-> thrown, saved |-> saved, rolled |-> rolled, log |-> log]

\* a handler that threw a storage error before replying
Thrown(disk, mem, rolled) ==
    Result(disk, mem, NoReply, 0, "storage", TRUE, FALSE, rolled, <<>>)

\* a handler that replied without saving
Replied(disk, data, reply, rolled) ==
    Result(disk, <<data>>, reply, 0, "none", FALSE, FALSE, rolled, <<>>)

handleAdjust(disk, cur, amount, io) ==
    IF LoadThrows(disk, io) THEN Thrown(DiskAfterLoad(disk, cur, io), <<>>, FALSE)
    ELSE
        LET loaded == loadData(disk, cur)
            rolledData == autoResetIfNewDay(loaded, cur)
            data == applyAmount(rolledData, amount)
            rolled == loaded.date # cur
        IN  IF io = "saveFails"
            THEN Thrown(ensureDataFile(disk, cur), <<rolledData>>, rolled)
            ELSE Result(saveData(data), <<rolledData>>, countReply(data), 0, "none",
                        FALSE, TRUE, rolled, <<>>)

\* (mutation: the reset command clears the streak too)
resetTodayAndStreak(data) == [data EXCEPT !.today = Num(0), !.streak = 0]

\* data.today = 0 of the /重設 command
resetToday(data) == [data EXCEPT !.today = Num(0)]

\* msg === '/天氣' || msg.toLowerCase() === '/weather'
IsWeatherCommand(msg) == msg = CmdWeatherZh \/ toLowerCase(msg) = CmdWeatherEn

\* (mutation: the fetch is not inside try/catch)
weatherCommandUncaught(disk, data, rolled, fetchOk) ==
    IF fetchOk
    THEN Replied(disk, data, Reply("weatherReport", "", 0, Null, Null), rolled)
    ELSE Result(disk, <<data>>, NoReply, 0, "fetch", TRUE, FALSE, rolled, <<>>)

\* The weather branch of handleCommand: await getTaipeiWeather() inside
\* try/catch.  fetchOk: the fetch resolved (it rejects on a network error and
\* on a malformed response).
weatherCommand(disk, data, rolled, fetchOk) ==
    IF fetchOk
    THEN Replied(disk, data, Reply("weatherReport", "", 0, Null, Null), rolled)
    ELSE Result(disk, <<data>>, Reply("weatherFailed", "", 0, Null, Null), 0, "fetch",
                FALSE, FALSE, rolled, <<>>)

handleCommand(msg, disk, cur, io, fetchOk) ==
    IF LoadThrows(disk, io) THEN Thrown(DiskAfterLoad(disk, cur, io), <<>>, FALSE)
    ELSE
        LET loaded == loadData(disk, cur)
            data == autoResetIfNewDay(loaded, cur)
            rolled == loaded.date # cur
            kept == ensureDataFile(disk, cur)
        IN  IF IsWeatherCommand(msg)
            THEN weatherCommand(kept, data, rolled, fetchOk)
            ELSE IF msg = CmdQuery \/ msg = CmdQueryToday
            THEN Replied(kept, data,
                         Reply("query", "", data.streak, data.today, data.yesterday), rolled)
            ELSE IF msg = CmdQueryYesterday
            THEN Replied(kept, data, Reply("queryYesterday", "", 0, data.yesterday, Null),
                         rolled)
            ELSE IF msg = CmdReset
            THEN IF io = "saveFails"
                 THEN Thrown(kept, <<data>>, rolled)
                 ELSE Result(saveData(resetToday(data)), <<data>>,
                             Reply("reset", "", 0, Null, Null), 0, "none",
                             FALSE, TRUE, rolled, <<>>)
            ELSE IF msg = CmdHelp
            THEN Replied(kept, data, Reply("help", "", 0, Null, Null), rolled)
            ELSE Replied(kept, data, Reply("invalid", "", 0, Null, Null), rolled)

\* pattern occurs somewhere in text
Contains(text, pat) ==
    \E i \in 1..(Len(text) - Len(pat) + 1) : SubSeq(text, i, i + Len(pat) - 1) = pat

\* /good\s*night/: "good", any number of blanks, "night"
ContainsGoodNight(text) ==
    \E i \in 1..Len(text) : \E k \in 0..Len(text) :
        /\ i + 3 + k + 5 <= Len(text)
        /\ SubSeq(text, i, i + 3) = <<"g", "o", "o", "d">>
        /\ \A j \in (i + 4)..(i + 3 + k) : text[j] = " "
        /\ SubSeq(text, i + 4 + k, i + 8 + k) = <<"n", "i", "g", "h", "t">>

\* (mutation: the night pattern is tested before the morning pattern)
getActionCategoryNightFirst(message) ==
    LET m == toLowerCase(message)
    IN  IF Contains(m, <<"wan", "an">>) \/ ContainsGoodNight(m)
        THEN "night"
        ELSE IF \/ Contains(m, <<"zao", "an">>)
                \/ Contains(m, <<"zao", "shang", "hao">>)
                \/ Contains(m, <<"m", "o", "r", "n", "i", "n", "g">>)
        THEN "morning"
        ELSE IF \/ Contains(m, <<"mo">>)
                \/ Contains(m, <<"p", "a", "t">>)
        THEN "pat"
        ELSE IF \/ Contains(m, <<"kan", "dian", "shi">>)
                \/ Contains(m, <<"kan", "dian_s", "shi_s">>)
                \/ Contains(m, <<"t", "v">>)
        THEN "tv"
        ELSE "default"

\* getActionCategory: the patterns in order, first match wins; the i flag is
\* modelled by lowering the message.  早安 早上好 / 晚安 / 摸 撫摸 摸摸 / 看電視 看电视.
getActionCategory(message) ==
    LET m == toLowerCase(message)
    IN  IF \/ Contains(m, <<"zao", "an">>)
           \/ Contains(m, <<"zao", "shang", "hao">>)
           \/ Contains(m, <<"m", "o", "r", "n", "i", "n", "g">>)
        THEN "morning"
        ELSE IF Contains(m, <<"wan", "an">>) \/ ContainsGoodNight(m)
        THEN "night"
        ELSE IF \/ Contains(m, <<"mo">>)
                \/ Contains(m, <<"fu", "mo">>)
                \/ Contains(m, <<"mo", "mo">>)
                \/ Contains(m, <<"p", "a", "t">>)
        THEN "pat"
        ELSE IF \/ Contains(m, <<"kan", "dian", "shi">>)
                \/ Contains(m, <<"kan", "dian_s", "shi_s">>)
                \/ Contains(m, <<"t", "v">>)
        THEN "tv"
        ELSE "default"

\* every pool of actionBases holds two phrases
BasesPerCategory == 2

\* handleInteraction.  pick: the phrase choice() draws from the category's pool
\* (the emoticon and sound suffix of buildReaction are not kept in the reply).
handleInteraction(message, disk, cur, io, pick) ==
    IF LoadThrows(disk, io) THEN Thrown(DiskAfterLoad(disk, cur, io), <<>>, FALSE)
    ELSE
        LET loaded == loadData(disk, cur)
        IN  Replied(ensureDataFile(disk, cur), autoResetIfNewDay(loaded, cur),
                    Reply("reaction", getActionCategory(message), pick, Null, Null),
                    loaded.date # cur)

\* data.yesterday = data.today; data.today = 0; of resetDaily
moveTodayToYesterday(data) == [data EXCEPT !.yesterday = data.today, !.today = Num(0)]

\* resetDaily; logs 每日重置完成.
resetDaily(disk, cur, io) ==
    IF LoadThrows(disk, io) THEN Thrown(DiskAfterLoad(disk, cur, io), <<>>, FALSE)
    ELSE
        LET loaded == loadData(disk, cur)
            rolledData == autoResetIfNewDay(loaded, cur)
            rolled == loaded.date # cur
        IN  IF io = "saveFails"
            THEN Thrown(ensureDataFile(disk, cur), <<rolledData>>, rolled)
            ELSE Result(saveData(moveTodayToYesterday(rolledData)), <<rolledData>>,
                        NoReply, 0, "none", FALSE, TRUE, rolled, <<"resetDone">>)

\* rewards.json: entry i (0-based) is prize number i + 1.
rewards == [i \in 0..(RewardsLen - 1) |-> i + 1]

Min(a, b) == IF a <= b THEN a ELSE b

\* (mutation: an equal count extends the streak)
evaluateStreakLeq(data) ==
    IF JsLeq(data.today, data.yesterday)
    THEN [data EXCEPT !.streak = data.streak + 1]
    ELSE [data EXCEPT !.streak = 0]

\* the streak update of summarizeDay
evaluateStreak(data) ==
    IF JsLess(data.today, data.yesterday)
    THEN [data EXCEPT !.streak = data.streak + 1]
    ELSE [data EXCEPT !.streak = 0]

\* the reward summarizeDay selects from the updated record (0: none)
selectReward(before, data) ==
    IF JsLess(before.today, before.yesterday)
    THEN rewards[Min(data.streak, RewardsLen) - 1]
    ELSE 0

\* summarizeDay.  pushOk: the promise of client.pushMessage resolved; the
\* function neither awaits nor returns it, so a rejection does not leave it
\* as an exception, and it logs 日結訊息發送完畢 either way.
summarizeDay(disk, cur, io, pushOk) ==
    IF LoadThrows(disk, io) THEN Thrown(DiskAfterLoad(disk, cur, io), <<>>, FALSE)
    ELSE
        LET loaded == loadData(disk, cur)
            rolledData == autoResetIfNewDay(loaded, cur)
            data == evaluateStreak(rolledData)
            rolled == loaded.date # cur
        IN  IF io = "saveFails"
            THEN Thrown(ensureDataFile(disk, cur), <<rolledData>>, rolled)
            ELSE Result(saveData(data), <<rolledData>>,
                        Reply("summary", "", data.streak, data.today, data.yesterday),
                        selectReward(rolledData, data),
                        IF pushOk THEN "none" ELSE "push",
                        FALSE, TRUE, rolled, <<"summaryDone">>)

(***************************************************************************)
(* The webhook (src/index.js).                                             *)
(***************************************************************************)
\* String.prototype.trim for blanks
RECURSIVE TrimLeft(_)
TrimLeft(s) == IF Len(s) >= 1 /\ s[1] = " " THEN TrimLeft(Tail(s)) ELSE s

RECURSIVE TrimRight(_)
TrimRight(s) ==
    IF Len(s) >= 1 /\ s[Len(s)] = " " THEN TrimRight(SubSeq(s, 1, Len(s) - 1)) ELSE s

trim(s) == TrimRight(TrimLeft(s))

\* which handler the webhook hands a trimmed text to
Route(msg) ==
    IF IsNumericAdjust(msg) THEN "handleAdjust"
    ELSE IF StartsWith(msg, "/") THEN "handleCommand"
    ELSE "handleInteraction"

\* const cleaned = msg.startsWith('/') ? msg.slice(1) : msg; parseInt(cleaned)
AdjustAmount(msg) == parseInt(IF StartsWith(msg, "/") THEN Slice1(msg) ELSE msg)

\* Texts a user sends.  SignedTexts: every one- and two-character prefix of
\* + - / before the digit 1 (all nine shapes the pattern accepts, and the
\* shapes it rejects: no digit, no sign, a double slash) and a text with a
\* trailing blank.
SignChars == {"+", "-", "/"}
Prefixes == {<<>>} \cup {<<a>> : a \in SignChars} \cup {<<a, b>> : a \in SignChars, b \in SignChars}
SignedTexts ==
    {p \o <<"1">> : p \in Prefixes}
        \cup {<<"+">>, <<"/", "-">>, <<"+", "1", " ">>}
CommandTexts ==
    {CmdQuery, CmdQueryToday, CmdQueryYesterday, CmdReset, CmdHelp, CmdWeatherZh,
     CmdWeatherEn, <<"/", "W", "e", "a", "t", "h", "e", "r">>, <<"/", "cha">>}
FreeTexts == {<<"zao", "an">>, <<"wan", "an", "zao", "an">>, <<"h", "i">>}
Texts == SignedTexts \cup CommandTexts \cup FreeTexts

\* the trimmed texts the webhook hands to one handler
RoutedFrom(texts, handler) == {trim(t) : t \in {x \in texts : Route(trim(x)) = handler}}
RoutedTo(handler) == RoutedFrom(Texts, handler)
AdjustMessages == RoutedTo("handleAdjust")
CommandMessages == RoutedTo("handleCommand")
InteractionMessages == RoutedTo("handleInteraction")

\* adjustments by more than one
\* free texts around the keywords of getActionCategory: each category alone,
\* upper case, blanks inside good night, and two keywords in one text
KeywordTexts ==
    {<<"wan", "an">>, <<"zao", "shang", "hao">>,
     <<"G", "o", "o", "d", " ", "M", "o", "r", "n", "i", "n", "g">>,
     <<"g", "o", "o", "d", " ", " ", "n", "i", "g", "h", "t">>,
     <<"g", "o", "o", "d", "n", "i", "g", "h", "t", " ", "t", "v">>,
     <<"mo", "mo">>, <<"P", "A", "T">>, <<"kan", "dian", "shi">>, <<"T", "V">>,
     <<"kan", "dian", "shi", "mo">>, <<"t", "v", " ", "wan", "an">>,
     <<"p", "a", "t", " ", "m", "o", "r", "n", "i", "n", "g">>,
     <<"n", "i", "g", "h", "t">>}
KeywordMessages == RoutedFrom(KeywordTexts, "handleInteraction")

LargerTexts == {<<"+", "2">>, <<"-", "2">>, <<"/", "2", "1">>, <<"/", "-", "2", "1">>}
LargerAdjustMessages == RoutedFrom(LargerTexts, "handleAdjust")

\* getToday(): the UTC date (toISOString) of the clock
getToday == now.day

\* the record of the last step: the handler or job (op), the trimmed text of
\* the message (msg; <<>> where it is not kept), the amount (handleAdjust
\* only), the date getToday returned, the file before the step and what the
\* step did
Last(op, msg, amount, pre, r, caughtBy, log) ==
    [op |-> op, msg |-> msg, amount |-> amount, cur |-> now.day, pre |-> pre,
     mem |-> r.mem, reply |-> r.reply, reward |-> r.reward, err |-> r.err,
     thrown |-> r.thrown, saved |-> r.saved, rolled |-> r.rolled,
     caughtBy |-> caughtBy, log |-> log]

\* today of the file stays within the model's bound (null and absent pass)
WithinCount(disk, limit) ==
    IF disk = <<>> THEN TRUE
    ELSE IF IsNum(Head(disk).today) THEN Head(disk).today.v <= limit
    ELSE TRUE

\* the file-system outcomes that make a difference to a handler: creating the
\* file can fail only when it is absent, saving only in a handler that saves
IoChoices(disk, saves) ==
    {"ok", "readFails"}
        \cup (IF disk = <<>> THEN {"ensureFails"} ELSE {})
        \cup (IF saves THEN {"saveFails"} ELSE {})

\* An error thrown by a handler rejects the promise of the async route
\* callback; nothing awaits it, so the process-level handler logs it.
WebhookCaughtBy(r) ==
    IF r.thrown THEN "process"
    ELSE IF r.err = "fetch" THEN "handleCommand"
    ELSE "none"

WebhookLog(r) == IF r.thrown THEN <<"Unhandled Rejection at:">> ELSE <<>>

\* The ledger is a history variable: it follows the scheduler's days, which
\* run from one 00:05 (Asia/Taipei) resetDaily to the next.  atReset: the
\* today the file held right before the most recent resetDaily run that
\* completed; since: the adjustments applied since then, added up with the
\* clamp at zero; known: a resetDaily run has completed.  Only SpecDays keeps
\* it (on); elsewhere it stays as it starts.
Ledger(on, known, atReset, since) ==
    [on |-> on, known |-> known, atReset |-> atReset, since |-> since]

LedgerOff == Ledger(FALSE, FALSE, 0, 0)
LedgerOn == Ledger(TRUE, FALSE, 0, 0)

Track(l, step) ==
    IF ~l.on THEN l
    ELSE IF step.op = "resetDaily" /\ step.saved
    THEN Ledger(TRUE, TRUE,
                IF step.pre = <<>> \/ ~IsNum(Head(step.pre).today)
                THEN 0 ELSE Head(step.pre).today.v,
                0)
    ELSE IF step.op = "handleAdjust" /\ step.saved /\ IsNum(step.amount)
    THEN [l EXCEPT !.since = IF l.since + step.amount.v < 0 THEN 0
                              ELSE l.since + step.amount.v]
    ELSE l

\* keep: whether the record of the step keeps the text of the message
Kept(msg, keep) == IF keep THEN msg ELSE <<>>

ReceiveAdjust(messages, limit, keep) ==
    \E sent \in {[msg |-> Kept(m, keep), amount |-> AdjustAmount(m)] : m \in messages} :
    \E io \in IoChoices(dataJson, TRUE) :
    \E r \in {handleAdjust(dataJson, getToday, sent.amount, io)} :
            /\ WithinCount(r.disk, limit)
            /\ dataJson' = r.disk
            /\ last' = Last("handleAdjust", sent.msg, sent.amount, dataJson, r,
                            WebhookCaughtBy(r), WebhookLog(r))
            /\ UNCHANGED now
            /\ ledger' = Track(ledger, last')

ReceiveCommand(keep) ==
    \E msg \in CommandMessages : \E io \in IoChoices(dataJson, msg = CmdReset) :
    \E fetchOk \in (IF IsWeatherCommand(msg) THEN BOOLEAN ELSE {TRUE}) :
    \E r \in {handleCommand(msg, dataJson, getToday, io, fetchOk)} :
            /\ dataJson' = r.disk
            /\ last' = Last("handleCommand", Kept(msg, keep), Null, dataJson, r,
                            WebhookCaughtBy(r), WebhookLog(r))
            /\ UNCHANGED now
            /\ ledger' = Track(ledger, last')

ReceiveInteraction(messages, keep) ==
    \E msg \in messages : \E io \in IoChoices(dataJson, FALSE) :
    \E pick \in 1..BasesPerCategory :
    \E r \in {handleInteraction(msg, dataJson, getToday, io, pick)} :
            /\ dataJson' = r.disk
            /\ last' = Last("handleInteraction", Kept(msg, keep), Null, dataJson, r,
                            WebhookCaughtBy(r), WebhookLog(r))
            /\ UNCHANGED now
            /\ ledger' = Track(ledger, last')

(***************************************************************************)
(* A webhook request with several events: Promise.all(events.map(...)).    *)
(* map calls the handler of each event in turn, in one run of the event    *)
(* loop.  handleAdjust and handleInteraction are ordinary functions: each  *)
(* runs to its end (load, change, save, replyMessage) before the next      *)
(* event is looked at, and what one throws leaves map, so the later events *)
(* of the request are not handled.  handleCommand is async: it runs up to  *)
(* its await (the weather fetch, after loadData) and what it throws only   *)
(* rejects its own promise.                                                *)
(***************************************************************************)
\* (mutation: handleAdjust is async and awaits between loadData and saveData)
handleAdjustAwaitsBeforeSave == TRUE

\* whether handleAdjust gives up the event loop between loadData and saveData:
\* it holds no await
handleAdjustSuspends == FALSE

\* the outcome of the events handled so far
BatchRun(disk, applied, handled, replies, aborted, rejected) ==
    [disk |-> disk, applied |-> applied, handled |-> handled, replies |-> replies,
     aborted |-> aborted, rejected |-> rejected]

Replies(r) == IF r.reply.kind # "none" THEN 1 ELSE 0

\* the handler of event e, run on the file it loads.  base: the file when map
\* started (what a handler that suspended after loadData would have loaded);
\* io: the outcome of the file system during this event
HandleEvent(base, cur, e, run, io, fetchOk) ==
    IF Route(e) = "handleAdjust"
    THEN handleAdjust(IF handleAdjustSuspends THEN base ELSE run.disk,
                      cur, AdjustAmount(e), io)
    ELSE IF Route(e) = "handleCommand"
    THEN handleCommand(e, run.disk, cur, io, fetchOk)
    ELSE handleInteraction(e, run.disk, cur, io, 1)

\* the outcome after event i (text e) ended as r; nothing more happens once
\* map was left by a throw
AfterEvent(run, e, i, r) ==
    LET sync == Route(e) # "handleCommand"
    IN  BatchRun(r.disk,
                 IF Route(e) = "handleAdjust" /\ r.saved
                 THEN Append(run.applied, AdjustAmount(e))
                 ELSE run.applied,
                 i,
                 run.replies + Replies(r),
                 r.thrown /\ sync,
                 run.rejected \/ (r.thrown /\ ~sync))

\* events.map from event i on, as the set holding its one outcome.  failAt:
\* the event during which the file system fails (0: none), failure: how.
RECURSIVE RunBatch(_, _, _, _, _, _, _, _)
RunBatch(base, cur, events, i, runs, failAt, failure, fetchOk) ==
    IF i > Len(events) THEN runs
    ELSE RunBatch(base, cur, events, i + 1,
                  UNION {IF run.aborted THEN {run}
                         ELSE {AfterEvent(run, events[i], i, r) :
                                 r \in {HandleEvent(base, cur, events[i], run,
                                                    IF i = failAt THEN failure ELSE "ok",
                                                    fetchOk)}} :
                         run \in runs},
                  failAt, failure, fetchOk)

\* the texts of the events of a request
BatchTexts == {<<"+", "1">>, <<"-", "1">>, CmdWeatherZh, <<"h", "i">>}
BatchMessages == {trim(t) : t \in BatchTexts}
Batches == UNION {[1..n -> BatchMessages] : n \in 1..MaxBatch}

\* the record of a request with several events
LastBatch(events, pre, b) ==
    [op |-> "batch", msg |-> <<>>, amount |-> Null, cur |-> now.day, pre |-> pre,
     mem |-> <<>>, reply |-> NoReply, reward |-> 0,
     err |-> IF b.aborted \/ b.rejected THEN "storage" ELSE "none",
     thrown |-> b.aborted, saved |-> b.applied # <<>>, rolled |-> FALSE,
     caughtBy |-> IF b.aborted \/ b.rejected THEN "process" ELSE "none",
     log |-> IF b.aborted \/ b.rejected THEN <<"Unhandled Rejection at:">> ELSE <<>>,
     events |-> events, applied |-> b.applied, handled |-> b.handled,
     replies |-> b.replies]

ReceiveBatch ==
    \E events \in Batches : \E failAt \in 0..Len(events) :
    \E failure \in (IF failAt = 0 THEN {"ok"} ELSE {"readFails", "saveFails"}) :
    \E fetchOk \in (IF \E i \in 1..Len(events) : IsWeatherCommand(events[i])
                    THEN BOOLEAN ELSE {TRUE}) :
    \E b \in RunBatch(dataJson, getToday, events, 1,
                      {BatchRun(dataJson, <<>>, 0, 0, FALSE, FALSE)},
                      failAt, failure, fetchOk) :
            /\ WithinCount(b.disk, MaxToday)
            /\ dataJson' = b.disk
            /\ last' = LastBatch(events, dataJson, b)
            /\ UNCHANGED now
            /\ ledger' = Track(ledger, last')

\* an event that is not a text message: Promise.resolve(null)
ReceiveOther ==
    /\ last' = Last("ignored", <<>>, Null, dataJson,
                    Result(dataJson, <<>>, NoReply, 0, "none", FALSE, FALSE, FALSE, <<>>),
                    "none", <<>>)
    /\ UNCHANGED <<dataJson, now, ledger>>

(***************************************************************************)
(* The scheduled jobs (tz Asia/Taipei = UTC+8) in the order they fire in   *)
(* one UTC day: 23:50 Taipei = 15:50 UTC summarizeDay, 00:05 Taipei =      *)
(* 16:05 UTC resetDaily, 06:30 Taipei = 22:30 UTC weather push; then the   *)
(* UTC date, which getToday reads, changes.  now.slot counts the jobs that *)
(* have fired since the UTC date changed.                                  *)
(***************************************************************************)
SummarizeJob ==
    /\ now.slot = 0
    /\ \E io \in IoChoices(dataJson, TRUE) : \E pushOk \in BOOLEAN :
       \E r \in {summarizeDay(dataJson, getToday, io, pushOk)} :
        LET caughtBy == IF r.thrown THEN "job"
                        ELSE IF r.err = "push" THEN "process" ELSE "none"
            log == IF r.thrown THEN <<"summaryFailed">>
                   ELSE IF r.err = "push"
                   THEN r.log \o <<"Unhandled Rejection at:">>
                   ELSE r.log
        IN  /\ IF r.disk = <<>> THEN TRUE ELSE Head(r.disk).streak <= MaxStreak
            /\ dataJson' = r.disk
            /\ last' = Last("summarizeDay", <<>>, Null, dataJson, r, caughtBy, log)
    /\ now' = [now EXCEPT !.slot = 1]
    /\ ledger' = Track(ledger, last')

\* () => resetDaily(): the callback has no try/catch; what resetDaily throws
\* leaves the callback and ends in the scheduler or in the process handler.
ResetJob ==
    /\ now.slot = 1
    /\ \E io \in IoChoices(dataJson, TRUE) : \E outer \in {"scheduler", "process"} :
       \E r \in {resetDaily(dataJson, getToday, io)} :
        LET caughtBy == IF r.thrown THEN outer ELSE "none"
            log == IF r.thrown /\ outer = "process"
                   THEN <<"Uncaught Exception:">> ELSE r.log
        IN  /\ dataJson' = r.disk
            /\ last' = Last("resetDaily", <<>>, Null, dataJson, r, caughtBy, log)
    /\ now' = [now EXCEPT !.slot = 2]
    /\ ledger' = Track(ledger, last')

\* the 06:30 weather push: fetch, compose, push, all awaited inside try/catch
WeatherJob ==
    /\ now.slot = 2
    /\ \E fetchOk \in BOOLEAN : \E pushOk \in BOOLEAN :
        LET err == IF ~fetchOk THEN "fetch" ELSE IF ~pushOk THEN "push" ELSE "none"
            r == Result(dataJson, <<>>,
                        IF fetchOk THEN Reply("weatherReport", "", 0, Null, Null) ELSE NoReply,
                        0, err, FALSE, FALSE, FALSE, <<>>)
        IN  last' = Last("weatherPush", <<>>, Null, dataJson, r,
                         IF err = "none" THEN "none" ELSE "job",
                         IF err = "none" THEN <<"weatherSent">> ELSE <<"weatherFailed">>)
    /\ now' = [now EXCEPT !.slot = 3]
    /\ UNCHANGED <<dataJson, ledger>>

\* 00:00 UTC
Midnight ==
    /\ now.slot = 3
    /\ now.day < MaxDay
    /\ now' = [day |-> now.day + 1, slot |-> 0]
    /\ UNCHANGED <<dataJson, last, ledger>>

\* data.json as earlier runs of the program left it, last written on day 0
StoredRecords(limit, streaks) ==
    {Record(0, Num(t), Num(y), st) : t \in 0..limit, y \in 0..limit, st \in streaks}

StoredFiles(limit, streaks) == {<<>>} \cup {<<rec>> : rec \in StoredRecords(limit, streaks)}

StartLast ==
    [op |-> "start", msg |-> <<>>, amount |-> Null, cur |-> 0, pre |-> <<>>,
     mem |-> <<>>, reply |-> NoReply, reward |-> 0, err |-> "none", thrown |-> FALSE,
     saved |-> FALSE, rolled |-> FALSE, caughtBy |-> "none", log |-> <<>>]

\* The process starts on day 0 with no data.json or with one left by an
\* earlier run.
Init ==
    /\ dataJson \in StoredFiles(MaxToday, 0..MaxStreak)
    /\ now = [day |-> 0, slot |-> 0]
    /\ last = StartLast
    /\ ledger = LedgerOff

Next ==
    \/ ReceiveAdjust(AdjustMessages, MaxToday, FALSE)
    \/ ReceiveCommand(FALSE)
    \/ ReceiveInteraction(InteractionMessages, FALSE)
    \/ ReceiveOther
    \/ SummarizeJob
    \/ ResetJob
    \/ WeatherJob
    \/ Midnight

\* the whole program
Spec == Init /\ [][Next]_vars

\* The process starts on any day of the model, the file last written on day 0.
InitAnyDay(files) ==
    /\ dataJson \in files
    /\ now \in {[day |-> d, slot |-> 0] : d \in 0..MaxDay}
    /\ last = StartLast
    /\ ledger = LedgerOff

\* Adjustments alone, on counts up to MaxCount: the replies of handleAdjust.
CountYesterdays == {0, 20, 22, 25, 30}
CountStreaks == {0, 2}
CountFiles ==
    {<<>>} \cup {<<Record(0, Num(t), Num(y), st)>> :
                    t \in 0..MaxCount, y \in CountYesterdays, st \in CountStreaks}
InitCount == InitAnyDay(CountFiles)

NextCount == ReceiveAdjust(AdjustMessages \cup LargerAdjustMessages, MaxCount, TRUE)

SpecCount == InitCount /\ [][NextCount]_vars

\* Commands, free text and other events alone, the text of each kept.
InitDispatch == InitAnyDay(StoredFiles(MaxToday, {0, MaxStreak}))

NextDispatch ==
    \/ ReceiveCommand(TRUE)
    \/ ReceiveInteraction(InteractionMessages \cup KeywordMessages, TRUE)
    \/ ReceiveOther

SpecDispatch == InitDispatch /\ [][NextDispatch]_vars

\* The scheduler's days: adjustments by one and the three jobs, from a file
\* of day 0, with the ledger kept.
DayTexts == {<<"+", "1">>, <<"-", "1">>}
DayMessages == RoutedFrom(DayTexts, "handleAdjust")

InitDays ==
    /\ dataJson \in StoredFiles(MaxToday, {0})
    /\ now = [day |-> 0, slot |-> 0]
    /\ last = StartLast
    /\ ledger = LedgerOn

NextDays ==
    \/ ReceiveAdjust(DayMessages, MaxToday, FALSE)
    \/ SummarizeJob
    \/ ResetJob
    \/ WeatherJob
    \/ Midnight

SpecDays == InitDays /\ [][NextDays]_vars

\* Requests with several events, on the stored day and on later days, one
\* other event between two requests.
BatchFiles ==
    {<<>>} \cup {<<Record(0, Num(t), Num(y), 0)>> : t \in 0..MaxToday, y \in {0, MaxToday}}
InitBatch == InitAnyDay(BatchFiles)

NextBatch ==
    \/ last.op # "batch" /\ ReceiveBatch
    \/ ReceiveOther

SpecBatch == InitBatch /\ [][NextBatch]_vars

(***************************************************************************)
(* Properties.                                                             *)
(***************************************************************************)
\* the record loadData returned in the last step: the stored one, or the
\* default record when the file was absent
LoadedBefore ==
    IF last.pre = <<>> THEN Record(last.cur, Num(0), Num(0), 0) ELSE Head(last.pre)

\* the record now in the file
Stored == Head(dataJson)

\* the number JavaScript arithmetic reads from a stored field (null reads as 0)
NumberOf(x) == IF x.t = "number" THEN x.v ELSE 0

NonNegativeInteger(x) == x.t = "number" /\ x.v \in Nat

\* today and yesterday as they stand after the rollover check of the last step
TodayAfterCheck ==
    IF LoadedBefore.date = last.cur THEN LoadedBefore.today ELSE Num(0)

YesterdayAfterCheck ==
    IF LoadedBefore.date = last.cur THEN LoadedBefore.yesterday ELSE LoadedBefore.today

\* C1: in every persisted record, today and yesterday are non-negative
\* integers.
C1_CountsAreNonNegativeIntegers ==
    dataJson # <<>> =>
        NonNegativeInteger(Stored.today) /\ NonNegativeInteger(Stored.yesterday)

\* C2: handleAdjust with an integer amount d persists today = max(0, t + d),
\* t being today after the rollover check (the stored today when the stored
\* date is current, 0 otherwise); nothing clamps it from above.
C2_AdjustClampsAtZero ==
    (last.op = "handleAdjust" /\ last.saved /\ IsNum(last.amount)) =>
        LET sum == NumberOf(TodayAfterCheck) + last.amount.v
        IN  Stored.today = Num(IF sum < 0 THEN 0 ELSE sum)

\* C2 witness: a decrement of 21 from a count of 3 is clamped to 0.
C2_Witness ==
    /\ last.op = "handleAdjust" /\ last.saved
    /\ last.amount = Num(0 - 21)
    /\ LoadedBefore.today = Num(3)
    /\ LoadedBefore.date = last.cur
    /\ Stored.today = Num(0)

\* C3: a resetDaily that runs on a day on which the rollover has already
\* fired (the stored date is the current date, a day after the start) leaves
\* the record as it was.
C3_ResetAfterRolloverIsNoOp ==
    (last.op = "resetDaily" /\ last.saved /\ last.pre # <<>>
        /\ last.cur >= 1 /\ Head(last.pre).date = last.cur) =>
        dataJson = last.pre

\* C4: autoResetIfNewDay sets yesterday = today, today = 0, date = current
\* date when the stored date differs, changes nothing when it matches, and
\* applying it again with the same date changes nothing more.
C4_RolloverIdempotent ==
    last.mem # <<>> =>
        LET before == LoadedBefore
            once == Head(last.mem)
        IN  /\ before.date # last.cur =>
                once = Record(last.cur, Num(0), before.today, before.streak)
            /\ before.date = last.cur => once = before
            /\ autoResetIfNewDay(once, last.cur) = once

\* C4 witness: a rollover moved a count of 2 into yesterday.
C4_Witness ==
    /\ last.mem # <<>> /\ last.rolled
    /\ LoadedBefore.today = Num(2)
    /\ Head(last.mem).yesterday = Num(2)
    /\ Head(last.mem).today = Num(0)

\* C5 as stated: the reset command sets today to 0 and leaves yesterday and
\* streak as they were in the file, whatever the stored date.
C5_ResetLeavesYesterdayAndStreak ==
    (last.op = "handleCommand" /\ last.reply.kind = "reset" /\ last.pre # <<>>) =>
        /\ Stored.today = Num(0)
        /\ Stored.yesterday = Head(last.pre).yesterday
        /\ Stored.streak = Head(last.pre).streak

\* C5 amended: the reset command sets today to 0 and leaves streak unchanged;
\* yesterday is unchanged when the stored date is the current date, and is
\* the stored today when it is not (the rollover runs first).
C5_ResetAfterRolloverCheck ==
    (last.op = "handleCommand" /\ last.reply.kind = "reset") =>
        /\ Stored.today = Num(0)
        /\ Stored.streak = LoadedBefore.streak
        /\ Stored.yesterday = YesterdayAfterCheck
        /\ Stored.date = last.cur

\* C5 witness: a reset on a stale date rolled a count of 2 into yesterday.
C5_Witness ==
    /\ last.op = "handleCommand" /\ last.reply.kind = "reset"
    /\ last.rolled
    /\ LoadedBefore.today = Num(2) /\ LoadedBefore.yesterday = Num(1)
    /\ Stored.yesterday = Num(2)

\* C6: summarizeDay: when today < yesterday at evaluation time the streak
\* grows by one and the reward is catalog entry min(new streak, catalog
\* length), inside the catalog; otherwise the streak becomes 0 and there is
\* no reward; today and yesterday stay when the stored date is current.
C6_SummarizeDay ==
    (last.op = "summarizeDay" /\ last.saved) =>
        /\ IF NumberOf(TodayAfterCheck) < NumberOf(YesterdayAfterCheck)
           THEN /\ Stored.streak = LoadedBefore.streak + 1
                /\ last.reward = Min(Stored.streak, RewardsLen)
                /\ last.reward \in 1..RewardsLen
           ELSE Stored.streak = 0 /\ last.reward = 0
        /\ LoadedBefore.date = last.cur =>
               /\ Stored.today = LoadedBefore.today
               /\ Stored.yesterday = LoadedBefore.yesterday

\* C6 witness: the streak passed the catalog size and the last entry repeats.
C6_Witness ==
    /\ last.op = "summarizeDay" /\ last.saved
    /\ Stored.streak > RewardsLen
    /\ last.reward = RewardsLen

\* C7: a failure of a scheduled job is caught and logged by the job itself.
C7_JobFailuresCaughtByJob ==
    (last.op \in {"resetDaily", "summarizeDay", "weatherPush"} /\ last.err # "none") =>
        last.caughtBy = "job"

\* C8: when the weather fetch of the weather command fails, the reply is the
\* fixed failure text, the error does not leave handleCommand, and the file
\* is not written.
C8_WeatherFailureReply ==
    (last.op = "handleCommand" /\ last.err = "fetch") =>
        /\ last.reply.kind = "weatherFailed"
        /\ ~last.thrown
        /\ ~last.saved
        /\ last.pre # <<>> => dataJson = last.pre

\* C8 witness: the fetch failed while a rollover was due.
C8_Witness ==
    /\ last.op = "handleCommand" /\ last.err = "fetch"
    /\ last.rolled /\ last.pre # <<>>
    /\ Head(last.pre).today = Num(2)

\* the command texts handleCommand recognises, apart from /weather in any case
RecognisedCommands ==
    {CmdQuery, CmdQueryToday, CmdQueryYesterday, CmdReset, CmdHelp, CmdWeatherZh}

Unrecognised(msg) == msg \notin RecognisedCommands /\ toLowerCase(msg) # CmdWeatherEn

\* C9: the query commands, help, an unrecognised slash command and free text
\* leave the file as it was, also when a rollover is due; an unrecognised
\* slash command gets the invalid-command reply.
C9_ReadOnlyHandlers ==
    LET readOnly ==
            \/ last.op = "handleInteraction"
            \/ /\ last.op = "handleCommand"
               /\ \/ last.msg \in {CmdQuery, CmdQueryToday, CmdQueryYesterday, CmdHelp}
                  \/ Unrecognised(last.msg)
    IN  /\ readOnly =>
               /\ ~last.saved
               /\ last.pre # <<>> => dataJson = last.pre
        /\ (readOnly /\ ~last.thrown) =>
               last.reply.kind \in {"query", "queryYesterday", "help", "invalid", "reaction"}
        /\ (last.op = "handleCommand" /\ ~last.thrown /\ Unrecognised(last.msg)) =>
               last.reply.kind = "invalid"

\* C9 witness: a query answered while a rollover was due.
C9_Witness ==
    /\ last.op = "handleCommand" /\ last.msg = CmdQuery
    /\ last.rolled /\ last.pre # <<>>
    /\ Head(last.pre).today = Num(2)
    /\ last.reply.n = Num(0)
    /\ dataJson = last.pre

C11_ComparisonClause ==
    (last.op = "handleAdjust" /\ last.saved /\ IsNum(Stored.today)
        /\ Stored.today.v > 20) =>
        LET t == Stored.today.v
            y == NumberOf(Stored.yesterday)
        IN  /\ last.reply.kind = "comparison"
            /\ last.reply.n = Num(t)
            /\ last.reply.tag \in {"fewer", "same", "exceeded"}
            /\ last.reply.tag = "fewer" <=> t < y
            /\ last.reply.tag = "same" <=> t = y
            /\ last.reply.tag = "exceeded" <=> t > y
            /\ last.reply.tag = "fewer" => last.reply.d = Num(y - t)
            /\ last.reply.tag = "exceeded" => last.reply.d = Num(t)

\* C11 witness: today = 25 against yesterday = 30 reports fewer by 5.
C11_Witness ==
    /\ last.op = "handleAdjust" /\ last.saved
    /\ Stored.today = Num(25) /\ Stored.yesterday = Num(30)
    /\ last.reply.tag = "fewer" /\ last.reply.d = Num(5)

\* the category each text of the model has by the patterns of the source, read
\* off by hand: 早安, 早上好, morning / 晚安, good night / 摸, pat / 看電視, tv
ExpectedCategory ==
    [t \in InteractionMessages \cup KeywordMessages |->
        CASE t = <<"zao", "an">> -> "morning"
          [] t = <<"wan", "an", "zao", "an">> -> "morning"
          [] t = <<"zao", "shang", "hao">> -> "morning"
          [] t = <<"G", "o", "o", "d", " ", "M", "o", "r", "n", "i", "n", "g">> -> "morning"
          [] t = <<"p", "a", "t", " ", "m", "o", "r", "n", "i", "n", "g">> -> "morning"
          [] t = <<"wan", "an">> -> "night"
          [] t = <<"g", "o", "o", "d", " ", " ", "n", "i", "g", "h", "t">> -> "night"
          [] t = <<"g", "o", "o", "d", "n", "i", "g", "h", "t", " ", "t", "v">> -> "night"
          [] t = <<"t", "v", " ", "wan", "an">> -> "night"
          [] t = <<"mo", "mo">> -> "pat"
          [] t = <<"P", "A", "T">> -> "pat"
          [] t = <<"kan", "dian", "shi", "mo">> -> "pat"
          [] t = <<"kan", "dian", "shi">> -> "tv"
          [] t = <<"T", "V">> -> "tv"
          [] OTHER -> "default"]

\* C12: a free text gets exactly one category, the first of morning, night,
\* pat, tv whose pattern matches it, and default when none matches; 早安 is
\* morning, and a text with a night and a morning keyword is morning.
C12_FirstMatchingCategory ==
    (last.op = "handleInteraction" /\ ~last.thrown) =>
        /\ last.reply.kind = "reaction"
        /\ last.reply.tag \in {"morning", "night", "pat", "tv", "default"}
        /\ last.reply.tag = ExpectedCategory[last.msg]

\* C12 witness: the text with 晚安 before 早安 was classified as morning.
C12_Witness ==
    /\ last.op = "handleInteraction" /\ ~last.thrown
    /\ last.msg = <<"wan", "an", "zao", "an">>
    /\ last.reply.tag = "morning"

\* the shapes +n, -n, /+n, /-n: an optional slash, one sign, digits
SignedNumber(msg) ==
    LET body == IF msg # <<>> /\ Head(msg) = "/" THEN Tail(msg) ELSE msg
    IN  /\ Len(body) >= 2
        /\ body[1] \in {"+", "-"}
        /\ \A i \in 2..Len(body) : IsDigit(body[i])

\* C13: every text message of a webhook request is handed to one handler
\* (handleAdjust, handleCommand or handleInteraction), and in a request
\* without storage error every one of them is answered by one reply.
C13_EveryTextHandledOnce ==
    last.op = "batch" =>
        /\ last.handled = Len(last.events)
        /\ last.err = "none" => last.replies = Len(last.events)

\* C14: a text reaches handleAdjust only in one of the shapes +n, -n, /+n,
\* /-n, and the amount handed over is the signed integer it denotes.
C14_AdjustShapesAndAmount ==
    last.op = "handleAdjust" =>
        /\ SignedNumber(last.msg)
        /\ IsNum(last.amount)
        /\ LET body == IF Head(last.msg) = "/" THEN Tail(last.msg) ELSE last.msg
               magnitude == DecimalValue(Tail(body))
           IN  last.amount.v = IF body[1] = "-" THEN 0 - magnitude ELSE magnitude

\* C15: after every resetDaily run the persisted yesterday is the today the
\* file held right before the run, today is 0 and streak is as it was.
C15_ResetMovesTodayToYesterday ==
    (last.op = "resetDaily" /\ last.saved /\ last.pre # <<>>) =>
        /\ Stored.yesterday = Head(last.pre).today
        /\ Stored.today = Num(0)
        /\ Stored.streak = Head(last.pre).streak

\* C16: handleAdjust checks the rollover, applies the amount with the clamp,
\* saves, then replies: a reply is issued only when the record was saved, it
\* shows the count and the comparison of exactly the saved record, and when
\* storage fails there is no reply (and no change to an existing file).
C16_SaveThenReply ==
    last.op = "handleAdjust" =>
        /\ last.reply.kind # "none" =>
               /\ last.saved /\ dataJson # <<>>
               /\ Stored.date = last.cur
               /\ Stored.yesterday = YesterdayAfterCheck
               /\ last.reply.kind \in {"countReactions", "comparison"} =>
                      last.reply.n = Stored.today
               /\ last.reply.kind = "zero" => Stored.today = Num(0)
               /\ last.reply.tag = "fewer" =>
                      last.reply.d = JsSub(Stored.yesterday, Stored.today)
        /\ last.thrown =>
               /\ last.reply = NoReply
               /\ ~last.saved
               /\ last.pre # <<>> => dataJson = last.pre

\* C17: at a summarizeDay run (after a resetDaily run, no reset command in
\* between) the yesterday it compares is the today the file held right
\* before the most recent resetDaily run, and the today it compares is the
\* total of the adjustments since that run.
C17_ComparesFullDays ==
    (last.op = "summarizeDay" /\ last.saved /\ ledger.on /\ ledger.known) =>
        /\ Head(last.mem).yesterday = Num(ledger.atReset)
        /\ Head(last.mem).today = Num(ledger.since)

\* the deltas applied one after another, each with the clamp at zero
RECURSIVE ApplyDeltas(_, _)
ApplyDeltas(t, deltas) ==
    IF deltas = <<>> THEN t
    ELSE ApplyDeltas(IF t + Head(deltas) < 0 THEN 0 ELSE t + Head(deltas), Tail(deltas))

\* the deltas the adjustment events among events[1..n] denote, in event order
RECURSIVE DeltasOf(_, _)
DeltasOf(events, n) ==
    IF n = 0 THEN <<>>
    ELSE LET e == events[n]
         IN  IF e = <<"+", "1">> THEN Append(DeltasOf(events, n - 1), 1)
             ELSE IF e = <<"-", "1">> THEN Append(DeltasOf(events, n - 1), 0 - 1)
             ELSE DeltasOf(events, n - 1)

====
